---- MODULE Spec2Model ----
(***************************************************************************)
(* Verification model of the crewAI agent execution core:                  *)
(*   - RPMController (utilities/rpm_controller.py): the shared rate        *)
(*     limiter, its lock, its periodic timer and its forced wait;          *)
(*   - CrewAgentExecutor (agents/executor.py): the plan/act/observe loop;  *)
(*   - CacheHandler and CacheTools: the result cache and its reader tool;  *)
(*   - Task.check_tools and AgentTools: tool lists and delegation commands.*)
(* Threads are modelled statement by statement where the statements touch  *)
(* shared state (the lock and _current_rpm).  Time is a set of countdowns  *)
(* advanced by Tick.                                                       *)
(***************************************************************************)
EXTENDS Integers, Sequences, FiniteSets, TLC

\* ---------------------------------------------------------------- bounds
MaxAdds == 2           \* number of CacheHandler.add calls in one run
MaxIter == 3           \* largest max_iterations tried
NumThreads == 2        \* concurrent callers of check_or_wait
MaxCap == 2            \* largest max_rpm tried
MaxExecCap == 1        \* largest max_rpm of the crew that runs the executor
MaxStops == 2          \* number of stop_rpm_counter calls in one run
MaxTools == 2          \* longest tool list given to an Agent or a Task
MaxCmdLen == 6
MaxDepth == 3          \* _call invocations of one executor nested in each other
MaxPlans == 5          \* planning calls followed per _call invocation
MaxCalls == 5          \* check_or_wait calls made on the limiter whose wait is patched         \* longest delegation command, in symbols
TickSeconds == 30      \* seconds of wall-clock time one Tick advances

\* ------------------------------------------------------ program constants
DefaultMaxIterations == 15   \* max_iterations: Optional[int] = 15
WaitSeconds == 60      \* time.sleep(60) in _wait_for_next_minute
TimerSeconds == 60     \* threading.Timer(60.0, ...) in _reset_request_count

Threads == 1..NumThreads
Free == 0              \* value of lock when nobody holds it
TimerThread == NumThreads + 1
Exec == 1              \* the caller thread on which the executor runs

VARIABLES
    max_rpm,       \* RPMController.max_rpm; 0 stands for None (falsy)
    current_rpm,   \* RPMController._current_rpm
    lock,          \* holder of RPMController._lock, or Free
    pc,            \* per caller: position inside check_or_wait
    tmp,           \* per caller: value loaded by `self._current_rpm += 1`
    sleepLeft,     \* per caller: seconds left of time.sleep(60)
    tpc,           \* position of the timer thread in _reset_request_count
    timerLeft,     \* seconds until the armed threading.Timer fires
    granted,       \* history: calls returned True since the counter was last reset
    waits,         \* history: calls returned through the forced-wait path (line 57)
    recent,        \* history: ages (seconds) of the returns of the last 60 seconds
    lastPath,      \* history: per caller, the path its last returned call took
    timer,         \* RPMController._timer: "None" or "Timer" (a Timer object)
    timerCancelled,\* cancel() was called on the Timer object made at line 107
    spc,           \* position of the thread that calls stop_rpm_counter
    stops,         \* history: number of stop_rpm_counter calls that returned
    stopRaised,    \* history: a stop_rpm_counter call raised
    permits,       \* history: check_or_wait calls of this execution that returned
    request_within_rpm_limit,    \* CrewAgentExecutor.request_within_rpm_limit
    task,          \* the Task object last constructed
    agents,        \* AgentTools.agents: the roles of the agents, in order
    reply,         \* history: the last delegation command and what it returned
    max_iterations,              \* CrewAgentExecutor.max_iterations
    force_answer_max_iterations, \* CrewAgentExecutor.force_answer_max_iterations
    handle_parsing_errors,       \* AgentExecutor.handle_parsing_errors (the policy)
    iterations,    \* CrewAgentExecutor.iterations
    steps,         \* intermediate_steps of the running _call
    toolMap,       \* keys of name_to_tool_map of the running _call
    epc,           \* position of the executor inside _call
    result,        \* what _call returned or raised
    planCalls,     \* history: number of _iter_next_step calls of this execution
    lastOut,       \* history: what the planner returned to the last planning call
    lastIter,      \* history: value of iterations during the last planning call
    forcedAt,      \* history: values of iterations at which _force_answer was called
    invoked,       \* history: tools run by the last _iter_next_step, in order
    planned,       \* history: the planner outputs of this execution, in order
    cache,         \* CacheHandler._cache: key string -> output
    adds,          \* history: the add calls made, in order
    lastRead,      \* history: the last read call and what it returned, since the last add
    lastHit,       \* history: the last hit_cache call and what it returned, since the last add
    pending,       \* per agent sharing the cache: its add between line 44 and line 45
    seen,          \* history: the last read made by one of the agents sharing the cache
    exec_tools,    \* AgentExecutor.tools, as tool names
    max_execution_time,          \* AgentExecutor.max_execution_time, NoBudget or seconds
    time_elapsed,  \* the local time_elapsed of the running _call
    sinceStart,    \* time.time() - start_time of the running _call
    frames         \* the _call invocations of one executor that have not returned, outermost first

rpmVars == <<max_rpm, current_rpm, lock, pc, tmp, sleepLeft, tpc, timerLeft,
             granted, waits, recent, lastPath>>

\* the executor's variables other than the clock reading
execOther == <<request_within_rpm_limit, exec_tools, max_execution_time, frames,
               max_iterations, force_answer_max_iterations, handle_parsing_errors,
               iterations, steps, toolMap, epc, result, planCalls, lastOut, lastIter,
               forcedAt, invoked, planned, time_elapsed>>

execVars == <<execOther, sinceStart>>

vars == <<max_rpm, current_rpm, lock, pc, tmp, sleepLeft, tpc, timerLeft,
          granted, waits, recent, lastPath,
          max_iterations, force_answer_max_iterations, handle_parsing_errors,
          iterations, steps, toolMap, epc, result, planCalls, lastOut, lastIter,
          forcedAt, invoked, planned,
          cache, adds, lastRead, lastHit, pending, seen,
          exec_tools, max_execution_time, time_elapsed, sinceStart, frames,
          timer, timerCancelled, spc, stops, stopRaised, permits,
          request_within_rpm_limit, task, agents, reply>>

toolVars == <<task, agents, reply>>

stopVars == <<timer, timerCancelled, spc, stops, stopRaised>>

cacheVars == <<cache, adds, lastRead, lastHit, pending, seen>>

\* ------------------------------------------------------------- helpers
Max(a, b) == IF a > b THEN a ELSE b
Min(a, b) == IF a < b THEN a ELSE b

\* max_execution_time = None
NoBudget == -1

\* ages of the returns still inside the last 60 seconds, after d more seconds
Aged(s, d) == SelectSeq([i \in 1..Len(s) |-> s[i] + d], LAMBDA a : a < WaitSeconds)

\* threading.Lock(): acquire succeeds only while nobody holds the lock,
\* the holder included (the lock is not reentrant).
LockAcquirableNoExclusion(t) == TRUE
LockAcquirable(t) == lock = Free

\* lines 28 and 44: `if self.max_rpm` (None and 0 are falsy)
CappedAlways == TRUE
Capped == max_rpm # 0

\* line 48: self._current_rpm < self.max_rpm
HasCapacityOffByOne(count) == count <= max_rpm
HasCapacity(count) == count < max_rpm

\* line 56: the value stored after the forced wait
AfterWaitKeepsCount == current_rpm
AfterWait == 1

\* line 49: the value `self._current_rpm += 1` stores
IncrementedLost(v) == v
Incremented(v) == v + 1

\* ---------------------------------------------------------------- Init
RpmInit ==
    /\ max_rpm \in 0..MaxCap
    /\ current_rpm = 0
    /\ lock = Free
    /\ pc = [t \in Threads |-> "idle"]
    /\ tmp = [t \in Threads |-> 0]
    /\ sleepLeft = [t \in Threads |-> 0]
    \* reset_counter: with a cap, _reset_request_count has run once and armed the timer
    /\ tpc = IF Capped THEN "sleeping" ELSE "none"
    /\ timerLeft = IF Capped THEN TimerSeconds ELSE 0
    /\ timer = IF Capped THEN "Timer" ELSE "None"
    /\ timerCancelled = FALSE
    /\ spc = "idle"
    /\ stops = 0
    /\ stopRaised = FALSE
    /\ granted = 0
    /\ waits = 0
    /\ recent = << >>
    /\ lastPath = [t \in Threads |-> "none"]

\* ------------------------------------------------- check_or_wait, per caller
\* lines 44-47: no cap -> return True at once; else go and take the lock
CallBody(t) ==
    /\ pc[t] = "idle"
    /\ IF ~Capped
         THEN /\ lastPath' = [lastPath EXCEPT ![t] = "nocap"]
              /\ UNCHANGED pc
         ELSE /\ pc' = [pc EXCEPT ![t] = "lock47"]
              /\ UNCHANGED lastPath
    /\ UNCHANGED <<max_rpm, current_rpm, lock, tmp, sleepLeft, tpc, timerLeft,
                   granted, waits, recent>>

Call(t) == CallBody(t) /\ UNCHANGED <<execVars, cacheVars, toolVars, stopVars, permits>>

\* `with self._lock:` at line 47 (check_or_wait) and line 90 (_wait_for_next_minute)
AcquireLock(t) ==
    /\ pc[t] \in {"lock47", "lock90"}
    /\ LockAcquirable(t)
    /\ lock' = t
    /\ pc' = [pc EXCEPT ![t] = IF pc[t] = "lock47" THEN "check48" ELSE "set91"]
    /\ UNCHANGED <<max_rpm, current_rpm, tmp, sleepLeft, tpc, timerLeft,
                   granted, waits, recent, lastPath>>
    /\ UNCHANGED <<execVars, cacheVars, toolVars, stopVars, permits>>

\* line 48: the capacity test
Check(t) ==
    /\ pc[t] = "check48"
    /\ pc' = [pc EXCEPT ![t] = IF HasCapacity(current_rpm) THEN "load49" ELSE "log52"]
    /\ UNCHANGED <<max_rpm, current_rpm, lock, tmp, sleepLeft, tpc, timerLeft,
                   granted, waits, recent, lastPath>>
    /\ UNCHANGED <<execVars, cacheVars, toolVars, stopVars, permits>>

\* line 49, first half of `+= 1`: read the counter
Load(t) ==
    /\ pc[t] = "load49"
    /\ tmp' = [tmp EXCEPT ![t] = current_rpm]
    /\ pc' = [pc EXCEPT ![t] = "store49"]
    /\ UNCHANGED <<max_rpm, current_rpm, lock, sleepLeft, tpc, timerLeft,
                   granted, waits, recent, lastPath>>
    /\ UNCHANGED <<execVars, cacheVars, toolVars, stopVars, permits>>

\* the assignments to self._current_rpm: line 49 (second half of `+= 1`),
\* line 91 (= 0, then the inner `with` ends and releases the lock), line 56 (= 1)
Store(t) ==
    /\ pc[t] \in {"store49", "set91", "set56"}
    /\ current_rpm' = CASE pc[t] = "store49" -> Incremented(tmp[t])
                        [] pc[t] = "set91" -> 0
                        [] pc[t] = "set56" -> AfterWait
    /\ pc' = [pc EXCEPT ![t] = CASE pc[t] = "store49" -> "ret50"
                                 [] pc[t] = "set91" -> "set56"
                                 [] pc[t] = "set56" -> "ret57"]
    /\ lock' = IF pc[t] = "set91" THEN Free ELSE lock
    /\ granted' = IF pc[t] = "set91" THEN 0 ELSE granted
    /\ UNCHANGED <<max_rpm, tmp, sleepLeft, tpc, timerLeft, waits, recent, lastPath>>
    /\ UNCHANGED <<execVars, cacheVars, toolVars, stopVars, permits>>

\* lines 50 and 57: `return True`, leaving the `with` block of line 47
ReturnTrue(t) ==
    /\ pc[t] \in {"ret50", "ret57"}
    /\ lock' = Free
    /\ pc' = [pc EXCEPT ![t] = "idle"]
    /\ granted' = granted + 1
    /\ waits' = IF pc[t] = "ret57" THEN waits + 1 ELSE waits
    /\ recent' = Append(recent, 0)
    /\ lastPath' = [lastPath EXCEPT ![t] = IF pc[t] = "ret50" THEN "grant" ELSE "wait"]
    /\ permits' = IF t = Exec /\ epc = "plan" THEN permits + 1 ELSE permits
    /\ UNCHANGED <<max_rpm, current_rpm, tmp, sleepLeft, tpc, timerLeft>>
    /\ UNCHANGED <<execVars, cacheVars, toolVars, stopVars>>

\* lines 52-55 and 89: log the notice, call _wait_for_next_minute, start time.sleep(60)
LogAndSleep(t) ==
    /\ pc[t] = "log52"
    /\ pc' = [pc EXCEPT ![t] = "sleep89"]
    /\ sleepLeft' = [sleepLeft EXCEPT ![t] = WaitSeconds]
    /\ UNCHANGED <<max_rpm, current_rpm, lock, tmp, tpc, timerLeft,
                   granted, waits, recent, lastPath>>
    /\ UNCHANGED <<execVars, cacheVars, toolVars, stopVars, permits>>

\* line 89: time.sleep(60) returns
Wake(t) ==
    /\ pc[t] = "sleep89"
    /\ sleepLeft[t] = 0
    /\ pc' = [pc EXCEPT ![t] = "lock90"]
    /\ UNCHANGED <<max_rpm, current_rpm, lock, tmp, sleepLeft, tpc, timerLeft,
                   granted, waits, recent, lastPath>>
    /\ UNCHANGED <<execVars, cacheVars, toolVars, stopVars, permits>>

\* tests/agent_test.py lines 534-535 (also 469, 605; crew_test.py 407): the tests
\* replace _wait_for_next_minute by a mock, so line 55 returns at once, without
\* sleeping, without taking the lock again and without zeroing the counter
PatchedWait(t) ==
    /\ pc[t] = "log52"
    /\ pc' = [pc EXCEPT ![t] = "set56"]
    /\ UNCHANGED <<max_rpm, current_rpm, lock, tmp, sleepLeft, tpc, timerLeft,
                   granted, waits, recent, lastPath>>
    /\ UNCHANGED <<execVars, cacheVars, toolVars, stopVars, permits>>

\* one more call of check_or_wait, while fewer than MaxCalls were made
PatchedCall(t) ==
    /\ granted + Cardinality({u \in Threads : pc[u] # "idle"}) < MaxCalls
    /\ Call(t)

CallerStep(t) ==
    \/ AcquireLock(t)
    \/ Check(t)
    \/ Load(t)
    \/ Store(t)
    \/ ReturnTrue(t)
    \/ LogAndSleep(t)
    \/ Wake(t)

\* ------------------------------------- _reset_request_count on the timer thread
\* the armed threading.Timer expires and calls _reset_request_count
TimerFire ==
    /\ tpc = "sleeping"
    /\ timerLeft = 0
    /\ tpc' = "lock103"
    /\ UNCHANGED <<max_rpm, current_rpm, lock, pc, tmp, sleepLeft, timerLeft,
                   granted, waits, recent, lastPath>>
    /\ UNCHANGED <<execVars, cacheVars, toolVars, stopVars, permits>>

\* line 103: with self._lock
TimerAcquire ==
    /\ tpc = "lock103"
    /\ LockAcquirable(TimerThread)
    /\ lock' = TimerThread
    /\ tpc' = "set104"
    /\ UNCHANGED <<max_rpm, current_rpm, pc, tmp, sleepLeft, timerLeft,
                   granted, waits, recent, lastPath>>
    /\ UNCHANGED <<execVars, cacheVars, toolVars, stopVars, permits>>

\* line 104: self._current_rpm = 0, and the `with` block ends
TimerReset ==
    /\ tpc = "set104"
    /\ current_rpm' = 0
    /\ granted' = 0
    /\ lock' = Free
    /\ tpc' = "timer105"
    /\ UNCHANGED <<max_rpm, pc, tmp, sleepLeft, timerLeft, waits, recent, lastPath>>
    /\ UNCHANGED <<execVars, cacheVars, toolVars, stopVars, permits>>

\* lines 105-108: cancel the old timer, arm a new one for 60 seconds
TimerRearm ==
    /\ tpc = "timer105"
    /\ timerLeft' = TimerSeconds
    /\ tpc' = "sleeping"
    /\ timer' = "Timer"
    /\ timerCancelled' = FALSE
    /\ UNCHANGED <<max_rpm, current_rpm, lock, pc, tmp, sleepLeft,
                   granted, waits, recent, lastPath>>
    /\ UNCHANGED <<execVars, cacheVars, toolVars, spc, stops, stopRaised, permits>>

TimerStep == TimerFire \/ TimerAcquire \/ TimerReset \/ TimerRearm

\* lines 105-108 statement by statement, for the runs in which another thread
\* (stop_rpm_counter) assigns self._timer meanwhile
\* lines 73 and 105: `if self._timer`
HasTimerAlways == TRUE
HasTimer == timer # "None"

\* line 105: if self._timer
TimerTest105 ==
    /\ tpc = "timer105"
    /\ tpc' = IF HasTimer THEN "cancel106" ELSE "new107"
    /\ UNCHANGED <<max_rpm, current_rpm, lock, pc, tmp, sleepLeft, timerLeft,
                   granted, waits, recent, lastPath>>
    /\ UNCHANGED <<execVars, cacheVars, toolVars, stopVars, permits>>

\* line 106: self._timer.cancel(); the Timer it finds is the one that has fired, so
\* cancelling it changes nothing; on None the call raises AttributeError and the
\* timer thread ends
TimerCancel106 ==
    /\ tpc = "cancel106"
    /\ tpc' = IF timer = "None" THEN "crashed" ELSE "new107"
    /\ UNCHANGED <<max_rpm, current_rpm, lock, pc, tmp, sleepLeft, timerLeft,
                   granted, waits, recent, lastPath>>
    /\ UNCHANGED <<execVars, cacheVars, toolVars, stopVars, permits>>

\* line 107: self._timer = threading.Timer(60.0, self._reset_request_count)
TimerNew107 ==
    /\ tpc = "new107"
    /\ timer' = "Timer"
    /\ timerCancelled' = FALSE
    /\ tpc' = "start108"
    /\ UNCHANGED <<max_rpm, current_rpm, lock, pc, tmp, sleepLeft, timerLeft,
                   granted, waits, recent, lastPath>>
    /\ UNCHANGED <<execVars, cacheVars, toolVars, spc, stops, stopRaised, permits>>

\* line 108: self._timer.start(); a Timer cancelled before it is started never
\* calls its function; on None the call raises AttributeError
TimerStart108 ==
    /\ tpc = "start108"
    /\ tpc' = CASE timer = "None" -> "crashed"
                 [] timer # "None" /\ timerCancelled -> "none"
                 [] OTHER -> "sleeping"
    /\ timerLeft' = IF timer # "None" /\ ~timerCancelled THEN TimerSeconds ELSE timerLeft
    /\ UNCHANGED <<max_rpm, current_rpm, lock, pc, tmp, sleepLeft,
                   granted, waits, recent, lastPath>>
    /\ UNCHANGED <<execVars, cacheVars, toolVars, stopVars, permits>>

StopTimerStep ==
    \/ TimerFire
    \/ TimerAcquire
    \/ TimerReset
    \/ TimerTest105
    \/ TimerCancel106
    \/ TimerNew107
    \/ TimerStart108

\* ------------------------------------------------------- stop_rpm_counter
\* the call and line 73: if self._timer; without a timer the call returns
StopTest ==
    /\ spc = "idle"
    /\ stops < MaxStops
    /\ IF HasTimer
         THEN spc' = "cancel74" /\ UNCHANGED stops
         ELSE spc' = "idle" /\ stops' = stops + 1
    /\ UNCHANGED <<timer, timerCancelled, stopRaised>>
    /\ UNCHANGED <<rpmVars, execVars, cacheVars, toolVars, permits>>

\* line 74: self._timer.cancel().  A pending Timer never fires; a Timer made but
\* not yet started is marked; a Timer that has fired is unaffected.
StopCancel ==
    /\ spc = "cancel74"
    /\ IF timer = "None"
         THEN /\ stopRaised' = TRUE
              /\ spc' = "idle"
              /\ UNCHANGED <<tpc, timerLeft, timerCancelled>>
         ELSE /\ spc' = "clear75"
              /\ tpc' = IF tpc = "sleeping" THEN "none" ELSE tpc
              /\ timerLeft' = IF tpc = "sleeping" THEN 0 ELSE timerLeft
              /\ timerCancelled' = IF tpc = "start108" THEN TRUE ELSE timerCancelled
              /\ UNCHANGED stopRaised
    /\ UNCHANGED <<timer, stops>>
    /\ UNCHANGED <<max_rpm, current_rpm, lock, pc, tmp, sleepLeft,
                   granted, waits, recent, lastPath>>
    /\ UNCHANGED <<execVars, cacheVars, toolVars, permits>>

\* line 75: self._timer = None, and the call returns
StopClear ==
    /\ spc = "clear75"
    /\ timer' = "None"
    /\ spc' = "idle"
    /\ stops' = stops + 1
    /\ UNCHANGED <<timerCancelled, stopRaised>>
    /\ UNCHANGED <<rpmVars, execVars, cacheVars, toolVars, permits>>

StopStep == StopTest \/ StopCancel \/ StopClear

\* ------------------------------------------------------------------ time
\* executor.py lines 108-138: _call is between reading start_time and its return
Running == epc \in {"loop", "rpm", "plan"}

\* TickSeconds of wall-clock time pass.  A sleep or a timer that is due
\* wakes before more time passes.  The reading of a running _call's clock is kept
\* only where a budget is set, and only up to the budget: every reading at or above
\* it fails the loop test alike.
Tick ==
    /\ \A t \in Threads : pc[t] = "sleep89" => sleepLeft[t] > 0
    /\ tpc = "sleeping" => timerLeft > 0
    /\ sleepLeft' = [t \in Threads |->
                        IF pc[t] = "sleep89" THEN Max(0, sleepLeft[t] - TickSeconds)
                                             ELSE sleepLeft[t]]
    /\ timerLeft' = IF tpc = "sleeping" THEN Max(0, timerLeft - TickSeconds) ELSE timerLeft
    /\ recent' = Aged(recent, TickSeconds)
    /\ sinceStart' = IF Running /\ max_execution_time # NoBudget
                       THEN Min(sinceStart + TickSeconds, max_execution_time)
                       ELSE sinceStart
    /\ UNCHANGED <<max_rpm, current_rpm, lock, pc, tmp, tpc, granted, waits, lastPath>>
    /\ UNCHANGED <<execOther, cacheVars, toolVars, stopVars, permits>>

\* ------------------------------------------------------ CrewAgentExecutor

\* the agent's tools (self.tools) and the ones marked return_direct
Tools == {"search", "direct"}
ReturnDirect(tool) == tool = "direct"
CacheToolName == "Hit Cache"

Policies == {"False", "True", "string", "callable"}

Act(tool) == [tool |-> tool, tool_input |-> <<"q">>]
Obs(text) == [text |-> text, names |-> {}]

\* what agent.plan can hand back: one action (its tool known or not), a final
\* answer, a CacheHit wrapping an action, a list of actions, or an
\* OutputParserException (TaskRepeatedUsageException is one with send_to_llm)
PlannerOutputs ==
    [kind : {"action"}, acts : {<<Act(n)>> : n \in Tools \cup {"nope"}},
     text : {"-"}, send : {FALSE}]
    \cup [kind : {"finish"}, acts : {<< >>}, text : {"ans1", "ans2"}, send : {FALSE}]
    \cup [kind : {"cachehit"}, acts : {<<Act("search")>>}, text : {"-"}, send : {FALSE}]
    \cup [kind : {"batch"},
          acts : {<<Act("search"), Act("direct")>>, <<Act("direct"), Act("search")>>},
          text : {"-"}, send : {FALSE}]
    \cup [kind : {"parse_error"}, acts : {<< >>}, text : {"bad output"}, send : BOOLEAN]
    \cup [kind : {"repeated"}, acts : {<< >>}, text : {"task_repeated_usage"},
          send : {TRUE}]

\* a tool whose run raises an exception, and the planner outputs that name it
BrokenTool == "broken"
FailingOutputs ==
    [kind : {"action"}, acts : {<<Act(BrokenTool)>>}, text : {"-"}, send : {FALSE}]
    \cup [kind : {"batch"},
          acts : {<<Act("search"), Act(BrokenTool)>>, <<Act(BrokenTool), Act("search")>>},
          text : {"-"}, send : {FALSE}]

\* the planner names the failing tool only when the agent has it
PlannerChoices ==
    IF BrokenTool \in exec_tools THEN PlannerOutputs \cup FailingOutputs ELSE PlannerOutputs

NoOutput == [kind |-> "none", acts |-> << >>, text |-> "-", send |-> FALSE]
NoResult == [kind |-> "none", text |-> "-"]

\* line 43: force_answer_max_iterations = max_iterations - 2
ForceThresholdLate(m) == m - 1
ForceThreshold(m) == m - 2

\* line 58: _should_force_answer
ShouldForceAnswer == iterations = force_answer_max_iterations

\* lines 75-77: _force_answer
ForceAnswerRunsTool(action) ==
    [action |-> action, observation |-> Obs("tool output")]
ForceAnswer(action) ==
    [action |-> action, observation |-> Obs("used_too_many_tools")]

\* AgentExecutor._should_continue at line 110: the iteration bound and, when a
\* budget is set, the time bound
ShouldContinueIgnoringTime(n, elapsed) == n < max_iterations
ShouldContinue(n, elapsed) ==
    /\ n < max_iterations
    /\ max_execution_time # NoBudget => elapsed < max_execution_time

\* lines 185-189: raise_error, true only for the boolean policy False
RaiseErrorNever == FALSE
RaiseError == handle_parsing_errors = "False"

\* lines 196-206: the observation the policy picks for a parse failure
ParseErrorObservationFixed(out) ==
    CASE handle_parsing_errors \in {"True", "False"} -> "Invalid or incomplete response"
      [] handle_parsing_errors = "string" -> "configured string"
      [] handle_parsing_errors = "callable" -> "handler result"
ParseErrorObservation(out) ==
    CASE handle_parsing_errors \in {"True", "False"} ->
            IF out.send THEN out.text ELSE "Invalid or incomplete response"
      [] handle_parsing_errors = "string" -> "configured string"
      [] handle_parsing_errors = "callable" -> "handler result"

\* lines 234-245: the actions of a planner output; a CacheHit is rewritten to the
\* cache-reader tool with input f"tool:{tool}|input:{tool_input}"
ActionsOf(out) ==
    IF out.kind = "cachehit"
      THEN << [tool |-> CacheToolName,
               tool_input |-> <<"tool:", out.acts[1].tool, "|input:">>
                              \o out.acts[1].tool_input] >>
      ELSE out.acts

\* line 241: name_to_tool_map[tool.name] = tool
MapAfter(out, map) == IF out.kind = "cachehit" THEN map \cup {CacheToolName} ELSE map

\* lines 251-278: run one action against the dispatch table
ObserveStaticNames(a, map) ==
    IF a.tool \in map
      THEN Obs(IF a.tool = CacheToolName THEN "cached output"
               ELSE IF a.tool = "search" THEN "search output" ELSE "direct output")
      ELSE [text |-> "invalid_tool", names |-> Tools]
Observe(a, map) ==
    IF a.tool \in map
      THEN Obs(IF a.tool = CacheToolName THEN "cached output"
               ELSE IF a.tool = "search" THEN "search output" ELSE "direct output")
      ELSE [text |-> "invalid_tool", names |-> map]

\* lines 259-265: tool.run raises (no try block encloses the call)
RaisesNever(a, map) == FALSE
Raises(a, map) == a.tool = BrokenTool /\ a.tool \in map

\* lines 247-278: the position of the first action whose tool raises, 0 if none
FirstFailure(acts, map) ==
    IF \E i \in 1..Len(acts) : Raises(acts[i], map)
      THEN CHOOSE i \in 1..Len(acts) :
             Raises(acts[i], map) /\ \A j \in 1..(i - 1) : ~Raises(acts[j], map)
      ELSE 0

\* lines 247-278: the dispatch loop, one step per action, in the order of the list
RunActionsReversed(acts, map) ==
    [i \in 1..Len(acts) |->
       [action |-> acts[Len(acts) + 1 - i],
        observation |-> Observe(acts[Len(acts) + 1 - i], map)]]
RunActions(acts, map) ==
    [i \in 1..Len(acts) |-> [action |-> acts[i], observation |-> Observe(acts[i], map)]]

\* lines 259-265: the tools of the dispatch table that the steps ss ran, in order
Ran(ss, map) ==
    SelectSeq([i \in 1..Len(ss) |-> ss[i].action.tool], LAMBDA n : n \in map)

\* lines 167-278: _iter_next_step on planner output `out`, as consumed by
\* _take_next_step: a final answer, an exception, or the list of steps
IterNextStep(out, map) ==
    IF out.kind \in {"parse_error", "repeated"}
      THEN IF RaiseError
             THEN [kind |-> "raise", text |-> "ValueError", steps |-> << >>,
                   map |-> map, ran |-> << >>, forced |-> FALSE]
             ELSE LET a == [tool |-> "_Exception",
                            tool_input |-> <<ParseErrorObservation(out)>>]
                  IN  [kind |-> "steps", text |-> "-",
                       steps |-> IF ShouldForceAnswer
                                   THEN <<ForceAnswer(a)>>
                                   ELSE <<[action |-> a,
                                           observation |-> Obs(a.tool_input[1])]>>,
                       map |-> map, ran |-> <<"_Exception">>,
                       forced |-> ShouldForceAnswer]
    ELSE IF ShouldForceAnswer
      THEN IF out.kind \in {"action", "cachehit"}
             THEN [kind |-> "steps", text |-> "-",
                   steps |-> <<ForceAnswer(out.acts[1])>>,
                   map |-> map, ran |-> << >>, forced |-> TRUE]
             \* line 180: output.action on an AgentFinish or a list
             ELSE [kind |-> "raise", text |-> "AttributeError", steps |-> << >>,
                   map |-> map, ran |-> << >>, forced |-> FALSE]
    ELSE IF out.kind = "finish"
      THEN [kind |-> "finish", text |-> out.text, steps |-> << >>,
            map |-> map, ran |-> << >>, forced |-> FALSE]
    ELSE LET acts == ActionsOf(out)
             m == MapAfter(out, map)
             fail == FirstFailure(acts, m)
         IN  IF fail # 0
               \* the exception leaves the generator: the steps computed so far
               \* are dropped with it
               THEN [kind |-> "raise", text |-> "ToolError", steps |-> << >>,
                     map |-> m, ran |-> Ran(RunActions(SubSeq(acts, 1, fail), m), m),
                     forced |-> FALSE]
               ELSE [kind |-> "steps", text |-> "-",
                     steps |-> RunActions(acts, m),
                     map |-> m,
                     ran |-> Ran(RunActions(acts, m), m),
                     forced |-> FALSE]

\* line 125: len(next_step_output) == 1
SingleStepOrMore(ss) == Len(ss) >= 1
SingleStep(ss) == Len(ss) = 1

\* AgentExecutor._get_tool_return at line 128: the step's tool is one of
\* self.tools and is marked return_direct
IsDirectReturn(step) == step.action.tool \in exec_tools /\ ReturnDirect(step.action.tool)

ExecInitWith(m, h) ==
    /\ max_iterations = m
    /\ force_answer_max_iterations = ForceThreshold(m)
    /\ handle_parsing_errors = h
    /\ iterations = 0
    /\ steps = << >>
    /\ toolMap = {}
    /\ epc = "new"
    /\ result = NoResult
    /\ planCalls = 0
    /\ lastOut = NoOutput
    /\ lastIter = 0
    /\ forcedAt = << >>
    /\ invoked = << >>
    /\ planned = << >>
    /\ permits = 0
    /\ time_elapsed = 0
    /\ sinceStart = 0
    /\ frames = << >>

\* an agent with the two working tools and no time budget
ExecDefaults ==
    /\ exec_tools = Tools
    /\ max_execution_time = NoBudget

\* lines 99-108: _call begins
ExecStart ==
    /\ epc = "new"
    /\ toolMap' = exec_tools
    /\ steps' = << >>
    /\ iterations' = 0
    /\ time_elapsed' = 0
    /\ sinceStart' = 0
    /\ epc' = "loop"
    /\ permits' = 0
    /\ UNCHANGED <<request_within_rpm_limit, exec_tools, max_execution_time, frames,
                   max_iterations, force_answer_max_iterations, handle_parsing_errors,
                   result, planCalls, lastOut, lastIter, forcedAt, invoked, planned>>
    /\ UNCHANGED <<rpmVars, cacheVars, toolVars, stopVars>>

\* line 110 and lines 135-138: the loop test; when it fails the stopped response
\* of agent.return_stopped_response is returned
ExecLoopTest ==
    /\ epc = "loop"
    /\ IF ShouldContinue(iterations, time_elapsed)
         THEN epc' = "rpm" /\ UNCHANGED result
         ELSE /\ epc' = "done"
              /\ result' = [kind |-> "stopped",
                            text |-> "Agent stopped due to iteration limit or time limit."]
    /\ UNCHANGED <<request_within_rpm_limit, exec_tools, max_execution_time, frames,
                   max_iterations, force_answer_max_iterations, handle_parsing_errors,
                   iterations, steps, toolMap, planCalls, lastOut, lastIter, forcedAt,
                   invoked, planned, permits, time_elapsed, sinceStart>>
    /\ UNCHANGED <<rpmVars, cacheVars, toolVars, stopVars>>

\* line 111: `not self.request_within_rpm_limit or self.request_within_rpm_limit()`;
\* the callable is RPMController.check_or_wait, which returns at once without a cap
ExecAcquire ==
    /\ epc = "rpm"
    /\ IF request_within_rpm_limit = "None"
         THEN UNCHANGED <<rpmVars, permits>>
         ELSE /\ CallBody(Exec)
              /\ permits' = IF Capped THEN permits ELSE permits + 1
    /\ epc' = "plan"
    /\ UNCHANGED <<request_within_rpm_limit, exec_tools, max_execution_time, frames,
                   max_iterations, force_answer_max_iterations, handle_parsing_errors,
                   iterations, steps, toolMap, result, planCalls, lastOut, lastIter,
                   forcedAt, invoked, planned, time_elapsed, sinceStart>>
    /\ UNCHANGED <<cacheVars, toolVars, stopVars>>

\* line 111: the call of check_or_wait, if one was made, has returned True
WithinRpmLimitUnchecked == TRUE
WithinRpmLimit == pc[Exec] = "idle"

\* lines 112-134: once check_or_wait has returned True, take the next step and
\* act on what it returned
ExecTakeNextStep ==
    /\ epc = "plan"
    /\ WithinRpmLimit
    /\ \E out \in PlannerChoices :
         LET r == IterNextStep(out, toolMap) IN
           /\ lastOut' = out
           /\ planned' = Append(planned, out)
           /\ lastIter' = iterations
           /\ planCalls' = planCalls + 1
           /\ invoked' = r.ran
           /\ forcedAt' = IF r.forced THEN Append(forcedAt, iterations) ELSE forcedAt
           /\ toolMap' = r.map
           /\ CASE r.kind = "raise" ->
                     /\ epc' = "raised"
                     /\ result' = [kind |-> "error", text |-> r.text]
                     /\ UNCHANGED <<steps, iterations, time_elapsed>>
                [] r.kind = "finish" ->
                     /\ epc' = "done"
                     /\ result' = [kind |-> "final", text |-> r.text]
                     /\ UNCHANGED <<steps, iterations, time_elapsed>>
                [] r.kind = "steps" ->
                     /\ steps' = steps \o r.steps
                     /\ IF SingleStep(r.steps) /\ IsDirectReturn(r.steps[1])
                          THEN /\ epc' = "done"
                               /\ result' = [kind |-> "direct",
                                             text |-> r.steps[1].observation.text]
                               /\ UNCHANGED <<iterations, time_elapsed>>
                          ELSE /\ epc' = "loop"
                               /\ iterations' = iterations + 1
                               /\ time_elapsed' = sinceStart
                               /\ UNCHANGED result
    /\ UNCHANGED <<request_within_rpm_limit, exec_tools, max_execution_time, frames,
                   max_iterations, force_answer_max_iterations, handle_parsing_errors,
                   permits, sinceStart>>
    /\ UNCHANGED <<rpmVars, cacheVars, toolVars, stopVars>>

ExecStep == ExecStart \/ ExecLoopTest \/ ExecAcquire \/ ExecTakeNextStep

\* ----------------------------------------------------------- CacheHandler
\* Strings are sequences of symbols: one-character strings, and the two separators
\* of the cache-reader tool's input, "tool:" and "|input:", as one symbol each.
Whitespace == {" ", "\t"}

\* str.strip(): drop leading and trailing whitespace
RECURSIVE LStrip(_)
LStrip(str) ==
    IF str # << >> /\ Head(str) \in Whitespace THEN LStrip(Tail(str)) ELSE str

RECURSIVE RStrip(_)
RStrip(str) ==
    IF str # << >> /\ str[Len(str)] \in Whitespace
      THEN RStrip(SubSeq(str, 1, Len(str) - 1))
      ELSE str

StripLeadingOnly(str) == LStrip(str)
Strip(str) == RStrip(LStrip(str))

\* lines 44-45 and 63-64: input = input.strip(); the key f"{tool}-{input}"
RECURSIVE Normalized(_)
Normalized(str) ==
    IF str = << >> THEN << >>
    ELSE IF Head(str) \in Whitespace THEN Normalized(Tail(str))
    ELSE <<IF Head(str) = "A" THEN "a" ELSE Head(str)>> \o Normalized(Tail(str))
CacheKeyNormalized(tool, input) == tool \o <<"-">> \o Normalized(input)
CacheKey(tool, input) == tool \o <<"-">> \o Strip(input)

None == "None"

\* line 45: self._cache[key] = output
CacheAddKeepFirst(c, tool, input, output) ==
    LET key == CacheKey(tool, input)
    IN  [k \in DOMAIN c \cup {key} |-> IF k \in DOMAIN c THEN c[k] ELSE output]
CacheAddEvicting(c, tool, input, output) ==
    LET key == CacheKey(tool, input)
    IN  [k \in {key} |-> output]
CacheAdd(c, tool, input, output) ==
    LET key == CacheKey(tool, input)
    IN  [k \in DOMAIN c \cup {key} |-> IF k = key THEN output ELSE c[k]]

\* line 64: self._cache.get(key)
CacheRead(c, tool, input) ==
    LET key == CacheKey(tool, input)
    IN  IF key \in DOMAIN c THEN c[key] ELSE None

\* the tool names, inputs and outputs tried
CacheToolNames == {<<"a">>, <<"a", "-">>}
CacheInputs == {<<"a">>, <<"-", "a">>, <<" ", "a", "\t">>, <<"A">>, <<"a", "a">>,
                <<"a", " ", "a">>, <<"a", "|input:", "a">>}
\* the whitespace put before and after an input
Paddings == {<< >>, <<" ">>, <<"\t">>, <<"\t", " ">>}
CacheOutputs == {"x", "y"}

NoRead == [tool |-> << >>, input |-> << >>, value |-> "-"]
NoHit == [tool |-> << >>, input |-> << >>, value |-> "-"]

\* str.split(sep): the pieces of str between the occurrences of sep
RECURSIVE Split(_, _)
Split(str, sep) ==
    IF \A i \in 1..Len(str) : str[i] # sep
      THEN <<str>>
      ELSE LET i == CHOOSE k \in 1..Len(str) :
                        str[k] = sep /\ \A j \in 1..(k - 1) : str[j] # sep
           IN  <<SubSeq(str, 1, i - 1)>> \o Split(SubSeq(str, i + 1, Len(str)), sep)

\* executor.py line 239: f"tool:{action.tool}|input:{action.tool_input}"
CacheHitKey(tool, input) == <<"tool:">> \o tool \o <<"|input:">> \o input

\* cache_tools.py lines 53-55: the (tool, tool_input) that hit_cache takes from key
HitCacheArgs(key) ==
    LET split == Split(key, "tool:") IN
      IF Len(split) < 2 THEN "IndexError"
      ELSE LET parts == Split(split[2], "|input:") IN
             IF Len(parts) < 2 THEN "IndexError"
             ELSE <<Strip(parts[1]), Strip(parts[2])>>

\* cache_tools.py lines 53-56: CacheTools.hit_cache
HitCache(c, key) ==
    LET args == HitCacheArgs(key) IN
      IF args = "IndexError" THEN "IndexError"
      ELSE CacheRead(c, args[1], args[2])

\* the agents of one crew, which share the crew's CacheHandler
CacheAgents == {"agent1", "agent2"}
\* the names and inputs they use
SharedToolNames == {<<"a">>}
SharedInputs == {<<"a">>, <<" ", "a", "\t">>, <<"A">>}
NoPending == [tool |-> << >>, input |-> << >>, output |-> "-"]
NoSeen == [agent |-> "-", tool |-> << >>, input |-> << >>, value |-> "-"]

CacheInit ==
    /\ cache = [k \in {} |-> None]
    /\ adds = << >>
    /\ lastRead = NoRead
    /\ lastHit = NoHit
    /\ pending = [a \in CacheAgents |-> NoPending]
    /\ seen = NoSeen

\* lines 27-45: CacheHandler.add
CacheHandlerAdd ==
    /\ Len(adds) < MaxAdds
    /\ \E tool \in CacheToolNames, input \in CacheInputs, output \in CacheOutputs :
         /\ cache' = CacheAdd(cache, tool, input, output)
         /\ adds' = Append(adds, [tool |-> tool, input |-> input, output |-> output])
    /\ lastRead' = NoRead
    /\ lastHit' = NoHit
    /\ UNCHANGED <<pending, seen>>
    /\ UNCHANGED <<rpmVars, execVars, stopVars, permits, toolVars>>

\* lines 47-64: CacheHandler.read
CacheHandlerRead ==
    /\ \E tool \in CacheToolNames, input \in CacheInputs :
         lastRead' = [tool |-> tool, input |-> input,
                      value |-> CacheRead(cache, tool, input)]
    /\ UNCHANGED <<cache, adds, lastHit, pending, seen>>
    /\ UNCHANGED <<rpmVars, execVars, stopVars, permits, toolVars>>

\* line 44, on agent a's thread: input = input.strip() (a local of the call)
SharedAddStrip(a) ==
    /\ pending[a] = NoPending
    /\ Len(adds) + Cardinality({b \in CacheAgents : pending[b] # NoPending}) < MaxAdds
    /\ \E tool \in SharedToolNames, input \in SharedInputs, output \in CacheOutputs :
         pending' = [pending EXCEPT
                        ![a] = [tool |-> tool, input |-> Strip(input), output |-> output]]
    /\ UNCHANGED <<cache, adds, lastRead, lastHit, seen>>
    /\ UNCHANGED <<rpmVars, execVars, stopVars, permits, toolVars>>

\* line 45, on agent a's thread: the dict item assignment (one atomic operation)
SharedAddStore(a) ==
    /\ pending[a] # NoPending
    /\ cache' = CacheAdd(cache, pending[a].tool, pending[a].input, pending[a].output)
    /\ adds' = Append(adds, [tool |-> pending[a].tool, input |-> pending[a].input,
                             output |-> pending[a].output, agent |-> a])
    /\ pending' = [pending EXCEPT ![a] = NoPending]
    /\ seen' = NoSeen
    /\ UNCHANGED <<lastRead, lastHit>>
    /\ UNCHANGED <<rpmVars, execVars, stopVars, permits, toolVars>>

\* lines 63-64, on agent a's thread: strip the input and dict.get
SharedRead(a) ==
    /\ \E tool \in SharedToolNames, input \in SharedInputs :
         seen' = [agent |-> a, tool |-> tool, input |-> input,
                  value |-> CacheRead(cache, tool, input)]
    /\ UNCHANGED <<cache, adds, lastRead, lastHit, pending>>
    /\ UNCHANGED <<rpmVars, execVars, stopVars, permits, toolVars>>

\* executor.py lines 234-240 and 259, cache_tools.py lines 38-56: the cache-reader
\* tool run on the input built from a cache-hit for (tool, input)
CacheToolsHitCache ==
    /\ \E tool \in CacheToolNames, input \in CacheInputs :
         lastHit' = [tool |-> tool, input |-> input,
                     value |-> HitCache(cache, CacheHitKey(tool, input))]
    /\ UNCHANGED <<cache, adds, lastRead, pending, seen>>
    /\ UNCHANGED <<rpmVars, execVars, stopVars, permits, toolVars>>

\* ------------------------------------------------------------------ Task
ToolNames == {"t1", "t2", "t3"}
ToolLists == UNION {[1..n -> ToolNames] : n \in 0..MaxTools}
NoAgent == [tools |-> <<"no agent">>]
AgentChoices == {NoAgent} \cup {[tools |-> l] : l \in ToolLists}
NoTask == [agent |-> NoAgent, given |-> << >>, tools |-> <<"no task">>]

\* task.py lines 70-71: a Task without tools takes the tools of its agent
CheckToolsAlwaysExtend(tools, agent) ==
    IF agent # NoAgent THEN tools \o agent.tools ELSE tools
CheckTools(tools, agent) ==
    IF tools = << >> /\ (agent # NoAgent /\ agent.tools # << >>)
      THEN tools \o agent.tools
      ELSE tools

\* Task(agent=..., tools=...): the fields are set, then the validator check_tools runs
TaskCreate ==
    /\ \E a \in AgentChoices, given \in ToolLists :
         task' = [agent |-> a, given |-> given, tools |-> CheckTools(given, a)]
    /\ UNCHANGED <<agents, reply>>
    /\ UNCHANGED <<rpmVars, execVars, cacheVars, stopVars, permits>>

\* ------------------------------------------------------------ AgentTools
CmdSymbols == {"a", "|"}
Commands == UNION {[1..n -> CmdSymbols] : n \in 0..MaxCmdLen}
AgentLists == {<< >>, <<<<"a">>>>, <<<<"a">>, <<"a", "a">>>>, <<<<"a", "a">>, <<"a", "a">>>>}
NoReply == [tool |-> "none", command |-> << >>, kind |-> "none", coworkers |-> << >>,
            agent |-> 0, task |-> << >>, context |-> << >>]

\* line 100: `agent, task, context = command.split("|")` unpacks exactly three values
ThreePartsOrMore(parts) == Len(parts) >= 3
ThreeParts(parts) == Len(parts) = 3

\* lines 83-119: AgentTools.__execute
Execute(tool, command) ==
    LET parts == Split(command, "|")
        base == [NoReply EXCEPT !.tool = tool, !.command = command]
    IN  IF ~ThreeParts(parts)
          THEN [base EXCEPT !.kind = "agent_tool_missing_param"]
        ELSE IF parts[1] = << >> \/ parts[2] = << >> \/ parts[3] = << >>
          THEN [base EXCEPT !.kind = "agent_tool_missing_param"]
        ELSE LET found == {i \in 1..Len(agents) : agents[i] = parts[1]} IN
             IF found = {}
               THEN [base EXCEPT !.kind = "agent_tool_unexsiting_coworker",
                                 !.coworkers = agents]
               ELSE [base EXCEPT !.kind = "execute_task",
                                 !.agent = CHOOSE i \in found : \A j \in found : i <= j,
                                 !.task = parts[2],
                                 !.context = parts[3]]

\* lines 51-65: delegate_work
DelegateWork ==
    /\ \E command \in Commands : reply' = Execute("delegate_work", command)
    /\ UNCHANGED <<task, agents>>
    /\ UNCHANGED <<rpmVars, execVars, cacheVars, stopVars, permits>>

\* lines 67-81: ask_question
AskQuestion ==
    /\ \E command \in Commands : reply' = Execute("ask_question", command)
    /\ UNCHANGED <<task, agents>>
    /\ UNCHANGED <<rpmVars, execVars, cacheVars, stopVars, permits>>

ToolsInit(ags) ==
    /\ task = NoTask
    /\ agents = ags
    /\ reply = NoReply

\* ------------------------------------------- _call re-entered by delegation
\* An agent whose delegation tools list the agent itself: the command names its own
\* role, __execute finds it (lines 106-119) and calls its execute_task, which runs
\* the agent's one executor again while the outer _call waits inside tool.run.
\* A frame is one _call invocation: plans counts its planning calls, own is the
\* value its counter has if only its own line 133 changes it.

SelfRole == <<"a">>
SelfCommand == SelfRole \o <<"|", "a", "|", "a">>
NewFrame == [plans |-> 0, own |-> 0, at |-> "loop"]
Top == frames[Len(frames)]

\* what every step of a _call invocation leaves alone
reentryRest == <<request_within_rpm_limit, exec_tools, max_execution_time,
                 max_iterations, force_answer_max_iterations, handle_parsing_errors,
                 steps, toolMap, planCalls, lastOut, lastIter, forcedAt, invoked,
                 planned, time_elapsed, sinceStart, permits, task, agents,
                 rpmVars, cacheVars, stopVars>>

\* the top frame is at the loop test of line 110 and passes it; its next
\* planning call is followed
TopPlans ==
    /\ frames # << >>
    /\ Top.at = "loop"
    /\ ShouldContinue(iterations, 0)
    /\ Top.plans < MaxPlans

\* executor.py line 133 in the frame below the one that returns: its tool run is
\* over, its step is appended and it increments self.iterations
Resumed(fs) ==
    IF fs = << >> THEN fs
    ELSE [fs EXCEPT ![Len(fs)] = [@ EXCEPT !.at = "loop", !.own = @ + 1]]

\* executor.py lines 99-108: the task's _call begins; line 106 zeroes the counter
ReStart ==
    /\ epc = "new"
    /\ frames = << >>
    /\ frames' = <<NewFrame>>
    /\ iterations' = 0
    /\ epc' = "loop"
    /\ UNCHANGED <<result, reply, reentryRest>>

\* lines 112-134: the planner returns an action of an ordinary tool, or any action
\* in the forced-answer iteration; its step is appended, line 133 increments
ReToolStep ==
    /\ TopPlans
    /\ frames' = [frames EXCEPT ![Len(frames)] =
                     [@ EXCEPT !.plans = @ + 1, !.own = @ + 1]]
    /\ iterations' = iterations + 1
    /\ UNCHANGED <<epc, result, reply, reentryRest>>

\* lines 112-118 and 259, agent_tools.py lines 51-119: the planner returns the
\* delegation tool with the agent's own role; the tool runs execute_task of the
\* same agent, whose executor's _call starts again and runs line 106
ReDelegateToSelf ==
    /\ TopPlans
    /\ ~ShouldForceAnswer
    /\ Len(frames) < MaxDepth
    /\ reply' = Execute("delegate_work", SelfCommand)
    /\ reply'.kind = "execute_task"
    /\ frames' = Append([frames EXCEPT ![Len(frames)] =
                            [@ EXCEPT !.plans = @ + 1, !.at = "tool"]],
                        NewFrame)
    /\ iterations' = 0
    /\ UNCHANGED <<epc, result, reentryRest>>

\* the top frame returns to its caller: to tool.run of the frame below, which
\* goes on to line 133, or to the task
Return(kind) ==
    /\ frames' = Resumed(SubSeq(frames, 1, Len(frames) - 1))
    /\ iterations' = IF Len(frames) > 1 THEN iterations + 1 ELSE iterations
    /\ IF Len(frames) > 1
         THEN UNCHANGED <<epc, result>>
         ELSE /\ epc' = "done"
              /\ result' = [kind |-> kind, text |-> "-"]
    /\ UNCHANGED <<reply, reentryRest>>

\* lines 119-122: the planner returns a final answer (outside the forced-answer
\* iteration, where line 180 raises on it)
ReFinish ==
    /\ TopPlans
    /\ ~ShouldForceAnswer
    /\ Return("final")

\* lines 110 and 135-138: the loop test fails and the stopped response is returned
ReStop ==
    /\ frames # << >>
    /\ Top.at = "loop"
    /\ ~ShouldContinue(iterations, 0)
    /\ Return("stopped")

\* line 180: a final answer in the forced-answer iteration raises; no frame
\* handles the exception
ReRaise ==
    /\ TopPlans
    /\ ShouldForceAnswer
    /\ frames' = << >>
    /\ epc' = "raised"
    /\ result' = [kind |-> "error", text |-> "AttributeError"]
    /\ UNCHANGED <<iterations, reply, reentryRest>>

\* --------------------------------------------------------- specifications
\* Spec: the rate limiter under concurrent callers; no executor runs.
Init ==
    /\ RpmInit
    /\ request_within_rpm_limit = "check_or_wait"
    /\ ExecInitWith(DefaultMaxIterations, "False")
    /\ ExecDefaults
    /\ CacheInit
    /\ ToolsInit(<< >>)

Next ==
    \/ \E t \in Threads : Call(t)
    \/ \E t \in Threads : CallerStep(t)
    \/ TimerStep
    \/ Tick

Spec == Init /\ [][Next]_vars

\* ExecSpec: one task execution, its rate limiter, the timer and the clock.
ExecInit ==
    /\ RpmInit
    /\ max_rpm \in 0..MaxExecCap
    /\ request_within_rpm_limit \in {"None", "check_or_wait"}
    /\ request_within_rpm_limit = "None" => max_rpm = 0
    /\ \E m \in 1..MaxIter : \E h \in Policies : ExecInitWith(m, h)
    /\ ExecDefaults
    /\ CacheInit
    /\ ToolsInit(<< >>)

ExecNext ==
    \/ ExecStep
    \/ CallerStep(Exec)
    \/ TimerStep
    \/ Tick

ExecSpec == ExecInit /\ [][ExecNext]_vars

\* StopSpec: the rate limiter under one caller and a thread that calls
\* stop_rpm_counter; the timer thread runs lines 105-108 statement by statement.
StopNext ==
    \/ Call(Exec)
    \/ CallerStep(Exec)
    \/ StopTimerStep
    \/ StopStep
    \/ Tick

StopSpec == Init /\ [][StopNext]_vars

\* TaskSpec: Task objects are constructed; nothing else runs.
TaskNext == TaskCreate

TaskInit == Init /\ max_rpm = 0

TaskSpec == TaskInit /\ [][TaskNext]_vars

\* DelegateSpec: the two delegation tools of one AgentTools are called.
DelegateInit ==
    /\ RpmInit
    /\ max_rpm = 0
    /\ request_within_rpm_limit = "check_or_wait"
    /\ ExecInitWith(DefaultMaxIterations, "False")
    /\ ExecDefaults
    /\ CacheInit
    /\ \E ags \in AgentLists : ToolsInit(ags)

DelegateNext == DelegateWork \/ AskQuestion

DelegateSpec == DelegateInit /\ [][DelegateNext]_vars

\* CacheSpec: one CacheHandler under add and read calls; nothing else runs.
CacheNext == CacheHandlerAdd \/ CacheHandlerRead

CacheSpecInit == Init /\ max_rpm = 0

CacheSpec == CacheSpecInit /\ [][CacheNext]_vars

\* PatchedSpec: a capped limiter as the tests run it: _wait_for_next_minute is
\* mocked and no time passes, so the periodic timer never fires.
PatchedInit == Init /\ max_rpm # 0

PatchedNext ==
    \E t \in Threads :
       \/ PatchedCall(t)
       \/ AcquireLock(t)
       \/ Check(t)
       \/ Load(t)
       \/ Store(t)
       \/ ReturnTrue(t)
       \/ PatchedWait(t)

PatchedSpec == PatchedInit /\ [][PatchedNext]_vars

\* SharedCacheSpec: the agents of a crew add to and read from the crew's one
\* CacheHandler, each on its own thread.
SharedCacheNext ==
    \E a \in CacheAgents : SharedAddStrip(a) \/ SharedAddStore(a) \/ SharedRead(a)

SharedCacheSpec == CacheSpecInit /\ [][SharedCacheNext]_vars

\* LoopSpec: one execution without a limiter, of an agent that also has a tool
\* whose run raises, with or without a time budget, while time passes.
BudgetSeconds == 60

LoopInit ==
    /\ RpmInit
    /\ max_rpm = 0
    /\ request_within_rpm_limit = "None"
    /\ \E m \in 1..MaxIter : \E h \in Policies : ExecInitWith(m, h)
    /\ exec_tools = Tools \cup {BrokenTool}
    /\ max_execution_time \in {NoBudget, BudgetSeconds}
    /\ CacheInit
    /\ ToolsInit(<< >>)

LoopNext == ExecStep \/ Tick

LoopSpec == LoopInit /\ [][LoopNext]_vars

\* ReentrySpec: one execution of an agent that can delegate to itself.
ReentryInit ==
    /\ RpmInit
    /\ max_rpm = 0
    /\ request_within_rpm_limit = "None"
    /\ \E m \in 1..MaxIter : ExecInitWith(m, "False")
    /\ ExecDefaults
    /\ CacheInit
    /\ ToolsInit(<<SelfRole>>)

ReentryNext ==
    ReStart \/ ReToolStep \/ ReDelegateToSelf \/ ReFinish \/ ReStop \/ ReRaise

ReentrySpec == ReentryInit /\ [][ReentryNext]_vars

\* HitSpec: one CacheHandler under add calls and cache hits served by CacheTools.
HitNext == CacheHandlerAdd \/ CacheToolsHitCache

HitSpec == CacheSpecInit /\ [][HitNext]_vars

\* Threads are scheduled fairly, the timer thread runs, time passes.  The lock is
\* given strong fairness: a thread that finds the lock free again and again gets it.
FairSpec ==
    /\ Spec
    /\ \A t \in Threads : WF_vars(CallerStep(t)) /\ SF_vars(AcquireLock(t))
    /\ WF_vars(TimerStep)
    /\ SF_vars(TimerAcquire)
    /\ WF_vars(Tick)

\* The executor's thread is scheduled fairly too.
FairExecSpec ==
    /\ ExecSpec
    /\ WF_vars(ExecStep)
    /\ WF_vars(CallerStep(Exec))
    /\ SF_vars(AcquireLock(Exec))
    /\ WF_vars(TimerStep)
    /\ SF_vars(TimerAcquire)
    /\ WF_vars(Tick)

\* ------------------------------------------------------------ properties
InCriticalSection(t) ==
    pc[t] \in {"check48", "load49", "store49", "ret50", "log52", "sleep89",
               "lock90", "set91", "set56", "ret57"}

\* rpm_controller.py lines 51-57: caller t is on the forced-wait path, between the
\* failed capacity test and its return
InForcedWait(t) == pc[t] \in {"log52", "sleep89", "lock90", "set91", "set56", "ret57"}

\* no caller is between taking the lock and returning
Quiescent == \A t \in Threads : pc[t] \in {"idle", "lock47"}

\* the execution is over: _call returned or raised
Ended == epc \in {"done", "raised"}

\* C2: an execution makes at most max_iterations planning calls and then ends
\* (stated in its weakest form: it ends at all, whatever the planner returns).
C2_EndsWithinMaxIterations ==
    /\ [](planCalls <= max_iterations)
    /\ (epc = "loop") ~> Ended

\* C3: whenever the planner returns a final answer, at any iteration, the loop
\* ends and returns exactly that answer.
C3_FinalAnswerIsReturned ==
    lastOut.kind = "finish" =>
        epc = "done" /\ result = [kind |-> "final", text |-> lastOut.text]

\* C9: _force_answer is called only in the iteration whose counter is
\* max_iterations - 2, at most once per execution, always when the planner
\* returns an action in that iteration, and never when max_iterations < 2.
C9_ForcedOnlyAtThreshold ==
    /\ \A i \in 1..Len(forcedAt) : forcedAt[i] = max_iterations - 2
    /\ Len(forcedAt) <= 1
    /\ (lastOut.kind = "action" /\ lastIter = max_iterations - 2) => Len(forcedAt) = 1
    /\ max_iterations < 2 => forcedAt = << >>

C9_Witness ==
    /\ max_iterations = 3
    /\ forcedAt = <<1>>
    /\ planCalls = 3
    /\ result.kind = "stopped"

\* C10: in the forced-answer iteration the action the planner chose is not run,
\* and the step appended to the history pairs that action with the fixed
\* used-too-many-tools observation.
C10_ForcedStepSkipsTool ==
    (lastOut.kind \in {"action", "cachehit"} /\ lastIter = max_iterations - 2) =>
        /\ invoked = << >>
        /\ Len(steps) >= 1
        /\ steps[Len(steps)] = [action |-> lastOut.acts[1],
                                observation |-> Obs("used_too_many_tools")]

C10_Witness ==
    /\ lastOut.kind = "action"
    /\ lastOut.acts[1].tool = "search"
    /\ lastIter = max_iterations - 2
    /\ Len(steps) = 2
    /\ steps[1].observation = Obs("search output")
    /\ epc = "loop"

\* the planner has returned the same single action `a` at every planning call
SameAction(a) ==
    /\ planned # << >>
    /\ \A i \in 1..Len(planned) : planned[i].kind = "action" /\ planned[i].acts = <<a>>

LastStep == steps[Len(steps)]
ParseFailure(out) == out.kind \in {"parse_error", "repeated"}
\* a step of the execution that is one planning call (_take_next_step)
PlanningStep == planCalls' = planCalls + 1

\* C11 (as stated): with max_iterations = 3 and a planner that always returns the
\* same action of an ordinary tool, the execution has one forced step, at
\* iteration 1, and its result is the used-too-many-tools text.
C11_EndsWithUsedTooManyTools ==
    (max_iterations = 3 /\ SameAction(Act("search")) /\ Ended) =>
        /\ forcedAt = <<1>>
        /\ planCalls <= 3
        /\ result.text = "used_too_many_tools"

\* C11 (amended): in that scenario (a tool not marked return_direct) an execution
\* that has ended made exactly 3 planning calls, one forced step at iteration 1
\* carrying the used-too-many-tools observation, and returned the stopped response.
C11_EndsWithStoppedResponse ==
    \A n \in {"search", "nope"} :
        (max_iterations = 3 /\ SameAction(Act(n)) /\ Ended) =>
            /\ forcedAt = <<1>>
            /\ planCalls = 3
            /\ Len(steps) = 3
            /\ steps[2] = [action |-> Act(n), observation |-> Obs("used_too_many_tools")]
            /\ result = [kind |-> "stopped",
                         text |-> "Agent stopped due to iteration limit or time limit."]

C11_Witness ==
    /\ max_iterations = 3
    /\ SameAction(Act("search"))
    /\ epc = "done"
    /\ steps[3].observation = Obs("search output")

\* C12: with a recovering parse-error policy an execution never ends by an
\* unhandled exception.
C12_NoUnhandledException == handle_parsing_errors # "False" => epc # "raised"

\* C13: a direct return hands back the output of a return_direct tool run in that
\* iteration, with its step appended; and a return_direct tool run as a single
\* action always ends the loop that way.
C13_DirectReturnIsToolOutput ==
    /\ result.kind = "direct" =>
          /\ invoked = <<"direct">>
          /\ result.text = "direct output"
          /\ LastStep = [action |-> Act("direct"), observation |-> Obs("direct output")]
    /\ (lastOut.kind = "action" /\ invoked = <<"direct">>) =>
          epc = "done" /\ result.kind = "direct"

\* C14 (as stated): in a batch, processing stops at the first return_direct
\* action and the loop ends with that tool's output.
C14_BatchStopsAtFirstDirect ==
    (lastOut.kind = "batch" /\ lastIter # max_iterations - 2) =>
        /\ result.kind = "direct"
        /\ Len(invoked) >= 1
        /\ ReturnDirect(invoked[Len(invoked)])
        /\ \A i \in 1..(Len(invoked) - 1) : ~ReturnDirect(invoked[i])

\* C14 (amended): when a batch reaches the dispatch loop every action of it is
\* run, in order, and their steps are appended; a batch never ends the loop by
\* direct return, whichever of its tools are return_direct.
C14_BatchRunsEveryAction ==
    (lastOut.kind = "batch" /\ lastIter # max_iterations - 2) =>
        /\ invoked = [i \in 1..Len(lastOut.acts) |-> lastOut.acts[i].tool]
        /\ Len(steps) >= Len(lastOut.acts)
        /\ \A i \in 1..Len(lastOut.acts) :
              steps[Len(steps) - Len(lastOut.acts) + i].action = lastOut.acts[i]
        /\ result.kind # "direct"
        /\ iterations = lastIter + 1

C14_Witness ==
    /\ lastOut.kind = "batch"
    /\ lastOut.acts[1].tool = "direct"
    /\ invoked = <<"direct", "search">>
    /\ epc = "rpm"

\* C15 (as stated): an action naming an unknown tool never raises, runs no tool,
\* and yields the invalid-tool observation listing the dispatch table's names;
\* the step is appended and the loop goes on.
C15_UnknownToolObservation ==
    (lastOut.kind = "action" /\ lastOut.acts[1].tool \notin toolMap) =>
        /\ epc # "raised"
        /\ invoked = << >>
        /\ LastStep = [action |-> lastOut.acts[1],
                       observation |-> [text |-> "invalid_tool", names |-> toolMap]]
        /\ iterations = lastIter + 1

\* C15 (amended): the same, except in the forced-answer iteration, where the
\* step carries the used-too-many-tools observation instead.
C15_UnknownToolObservationUnlessForced ==
    (lastOut.kind = "action" /\ lastOut.acts[1].tool \notin toolMap) =>
        /\ epc # "raised"
        /\ invoked = << >>
        /\ LastStep = [action |-> lastOut.acts[1],
                       observation |->
                          IF lastIter = max_iterations - 2
                            THEN Obs("used_too_many_tools")
                            ELSE [text |-> "invalid_tool", names |-> toolMap]]
        /\ iterations = lastIter + 1

C15_Witness ==
    /\ lastOut.kind = "action"
    /\ lastOut.acts[1].tool = "nope"
    /\ lastIter # max_iterations - 2
    /\ LastStep.observation.names = {"search", "direct", CacheToolName}
    /\ epc = "loop"

\* C16: a repeated-usage exception is never fatal: under every policy it yields a
\* step whose observation is the repeated-usage message.
C16_RepeatedUsageNeverFatal ==
    lastOut.kind = "repeated" =>
        /\ epc # "raised"
        /\ steps # << >>
        /\ LastStep.observation.text = "task_repeated_usage"

\* C17: under the policy False a malformed planner output ends the execution
\* with an error, appends no step, and nothing of the execution runs afterwards.
C17_NoRecoveryIsFatal ==
    [][/\ (PlanningStep /\ handle_parsing_errors = "False" /\ ParseFailure(lastOut')) =>
            /\ epc' = "raised"
            /\ result'.kind = "error"
            /\ steps' = steps
            /\ iterations' = iterations
       /\ epc = "raised" => UNCHANGED execVars]_vars

C17_Witness ==
    /\ epc = "raised"
    /\ handle_parsing_errors = "False"
    /\ ParseFailure(lastOut)
    /\ Len(steps) = 1
    /\ planCalls = 2

\* the observation each recovering policy prescribes for parse failure `out`
PolicyObservation(out) ==
    CASE handle_parsing_errors = "True" ->
            IF out.send THEN out.text ELSE "Invalid or incomplete response"
      [] handle_parsing_errors = "string" -> "configured string"
      [] handle_parsing_errors = "callable" -> "handler result"

\* C18 (as stated): under a recovering policy a malformed output appends exactly
\* one step, of the sentinel _Exception tool, with the policy's observation, and
\* counts as an iteration.
C18_RecoveredStepByPolicy ==
    [][(PlanningStep /\ handle_parsing_errors # "False" /\ ParseFailure(lastOut')) =>
          /\ steps' = Append(steps,
                [action |-> [tool |-> "_Exception",
                             tool_input |-> <<PolicyObservation(lastOut')>>],
                 observation |-> Obs(PolicyObservation(lastOut'))])
          /\ iterations' = iterations + 1]_vars

\* C18 (amended): the same, except in the forced-answer iteration, where the
\* step's observation is the used-too-many-tools text.
C18_RecoveredStepByPolicyUnlessForced ==
    [][(PlanningStep /\ handle_parsing_errors # "False" /\ ParseFailure(lastOut')) =>
          /\ steps' = Append(steps,
                [action |-> [tool |-> "_Exception",
                             tool_input |-> <<PolicyObservation(lastOut')>>],
                 observation |->
                    IF iterations = max_iterations - 2
                      THEN Obs("used_too_many_tools")
                      ELSE Obs(PolicyObservation(lastOut'))])
          /\ iterations' = iterations + 1]_vars

C18_Witness ==
    /\ handle_parsing_errors = "True"
    /\ lastOut.kind = "repeated"
    /\ lastIter # max_iterations - 2
    /\ LastStep.action.tool = "_Exception"
    /\ LastStep.observation = Obs("task_repeated_usage")
    /\ iterations = lastIter + 1

\* add call number i is not followed by an add to the same key
NotOverwritten(i) ==
    \A j \in (i + 1)..Len(adds) :
        CacheKey(adds[j].tool, adds[j].input) # CacheKey(adds[i].tool, adds[i].input)

\* C19: add(T, I, O) followed, with no later add to the same key, by read(T, I)
\* returns O; and read leaves the cache contents as they were.
C19_ReadAfterAddReturnsOutput ==
    /\ [](\A i \in 1..Len(adds) :
            (/\ NotOverwritten(i)
             /\ lastRead.tool = adds[i].tool
             /\ lastRead.input = adds[i].input) => lastRead.value = adds[i].output)
    /\ [][lastRead' # NoRead => cache' = cache]_vars

C19_Witness ==
    /\ Len(adds) = 2
    /\ adds[1].tool = adds[2].tool
    /\ adds[1].input = adds[2].input
    /\ adds[1].output = "x"
    /\ lastRead.tool = adds[2].tool
    /\ lastRead.input = adds[2].input
    /\ lastRead.value = "y"

\* C20: read(T, I) returns absent whenever no add was made for the pair
\* (T, trimmed I), also for names and inputs containing the '-' separator.
C20_UnseenPairReadsAbsent ==
    (/\ lastRead # NoRead
     /\ \A i \in 1..Len(adds) :
           ~(adds[i].tool = lastRead.tool /\ Strip(adds[i].input) = Strip(lastRead.input)))
        => lastRead.value = None

\* the inputs that are I with whitespace before and after it
Padded(I) == {w1 \o I \o w2 : w1 \in Paddings, w2 \in Paddings}

\* C21: a read whose input is I with whitespace before and after it returns what
\* the read of I returns, namely the output last added for I or for a padding of
\* I, and an add with such an input writes the cache that the add of I writes.
C21_PaddedInputSameEntry ==
    /\ [](lastRead # NoRead =>
            \A I \in CacheInputs :
                lastRead.input \in Padded(I) =>
                    /\ lastRead.value = CacheRead(cache, lastRead.tool, I)
                    /\ \A i \in 1..Len(adds) :
                          (/\ NotOverwritten(i)
                           /\ adds[i].tool = lastRead.tool
                           /\ adds[i].input \in Padded(I)) => lastRead.value = adds[i].output)
    /\ [][adds' # adds =>
            LET rec == adds'[Len(adds')] IN
              \A I \in CacheInputs :
                  rec.input \in Padded(I) =>
                      cache' = CacheAdd(cache, rec.tool, I, rec.output)]_vars

C21_Witness ==
    /\ Len(adds) = 1
    /\ adds[1].input = <<" ", "a", "\t">>
    /\ lastRead.tool = adds[1].tool
    /\ lastRead.input = <<"a">>
    /\ lastRead.value = adds[1].output

\* C22: an add for input I1 of a tool leaves what read returns for every input
\* I2 of that tool whose trimmed text differs from that of I1, inputs that
\* differ from I1 only in letter case or in internal whitespace included.
C22_OtherInputsUntouched ==
    [][adds' # adds =>
         LET rec == adds'[Len(adds')] IN
           \A I2 \in CacheInputs :
               Strip(I2) # Strip(rec.input) =>
                   CacheRead(cache', rec.tool, I2) = CacheRead(cache, rec.tool, I2)]_vars

C22_Witness ==
    /\ Len(adds) = 2
    /\ adds[1].tool = adds[2].tool
    /\ adds[1].input = <<"a", " ", "a">>
    /\ adds[2].input = <<"a", "a">>
    /\ adds[1].output # adds[2].output
    /\ lastRead.tool = adds[1].tool
    /\ lastRead.input = <<"a", " ", "a">>
    /\ lastRead.value = adds[1].output

\* C23: a cache-hit for tool T with input I, for which the cache holds a value,
\* is answered by the cache-reader tool with the value stored for (T, trimmed I).
C23_CacheHitObservesStoredValue ==
    (/\ lastHit # NoHit
     /\ CacheRead(cache, lastHit.tool, lastHit.input) # None)
        => lastHit.value = CacheRead(cache, lastHit.tool, lastHit.input)

\* C24: with max_rpm unset every check_or_wait call returns at once: no caller is
\* ever inside the call, waiting or holding the lock, the counter stays 0 and no
\* timer exists.
C24_NoCapIsNoOp ==
    max_rpm = 0 =>
        /\ \A t \in Threads :
              /\ pc[t] = "idle"
              /\ sleepLeft[t] = 0
              /\ lastPath[t] \in {"none", "nocap"}
        /\ lock = Free
        /\ current_rpm = 0
        /\ granted = 0
        /\ tpc = "none"
        /\ timer = "None"

C24_Witness ==
    /\ max_rpm = 0
    /\ \A t \in Threads : lastPath[t] = "nocap"

\* C25: stop_rpm_counter never raises and never changes the counter; a call made
\* while _timer is None changes nothing at all, and every call that returns leaves
\* _timer None, so a second call in a row is such a call.
C25_StopIsIdempotent ==
    /\ [](~stopRaised)
    /\ [][StopStep => UNCHANGED <<current_rpm, granted, lock, pc, max_rpm>>]_vars
    /\ [][(StopTest /\ timer = "None") =>
            (spc' = "idle" /\ UNCHANGED <<rpmVars, timer, timerCancelled>>)]_vars
    /\ [][stops' = stops + 1 => timer' = "None"]_vars

C25_Witness ==
    /\ stops = 2
    /\ ~stopRaised
    /\ timer = "None"
    /\ tpc = "none"
    /\ max_rpm > 0
    /\ current_rpm = max_rpm

\* C28: once a stop_rpm_counter call has returned, no Timer is pending, whatever
\* the timer thread was doing when the call was made.
C28_NoTimerAfterShutdown ==
    (stops > 0 /\ spc = "idle") => tpc # "sleeping"

\* C26: a Task constructed without tools has the tools of its agent, and a Task
\* constructed with a non-empty tool list has exactly that list.
C26_TaskToolsFromAgentOrOwn ==
    task # NoTask =>
        /\ (task.given = << >> /\ task.agent # NoAgent) => task.tools = task.agent.tools
        /\ (task.given = << >> /\ task.agent = NoAgent) => task.tools = << >>
        /\ task.given # << >> => task.tools = task.given

C26_Witness ==
    /\ task # NoTask
    /\ task.agent # NoAgent
    /\ task.agent.tools = <<"t1", "t2">>
    /\ task.given = <<"t3">>
    /\ task.tools = <<"t3">>

\* the positions of the '|' separators of a command
Pipes(command) == {i \in 1..Len(command) : command[i] = "|"}

\* the command has exactly three non-empty '|'-separated parts and the first is
\* the role of an agent of the list
WellFormed(command) ==
    /\ Cardinality(Pipes(command)) = 2
    /\ LET i == CHOOSE k \in Pipes(command) : \A j \in Pipes(command) : k <= j
           j == CHOOSE k \in Pipes(command) : \A l \in Pipes(command) : l <= k
       IN  /\ 1 < i /\ i + 1 < j /\ j < Len(command)
           /\ \E n \in 1..Len(agents) : agents[n] = SubSeq(command, 1, i - 1)

C29_ResetRecurs ==
    max_rpm # 0 => []<><<TimerReset>>_vars

\* C30: with a rate limiter configured, the check_or_wait calls of an execution
\* that have returned are as many as its planning calls, plus the one that has
\* returned for the planning call about to be made; without one, no call is made.
C30_OneAcquirePerPlanningCall ==
    /\ request_within_rpm_limit = "None" => (permits = 0 /\ pc[Exec] = "idle")
    /\ request_within_rpm_limit # "None" =>
          permits = planCalls + (IF epc = "plan" /\ pc[Exec] = "idle" THEN 1 ELSE 0)
    /\ Ended => (request_within_rpm_limit # "None" => permits = planCalls)

C30_Witness ==
    /\ request_within_rpm_limit # "None"
    /\ max_rpm # 0
    /\ Ended
    /\ planCalls = 2
    /\ permits = 2

\* C32: for every tool name T and input I, hit_cache applied to the text
\* 'tool:' + T + '|input:' + I reads the cache with (T stripped, I stripped).
C32_CacheHitKeyRoundTrips ==
    lastHit # NoHit =>
        HitCacheArgs(CacheHitKey(lastHit.tool, lastHit.input))
            = <<Strip(lastHit.tool), Strip(lastHit.input)>>

\* C34: entries are never evicted and never expire: the key of every add performed
\* so far is in the cache, and a read of such a key returns a value, not None.
C34_EntriesNeverEvicted ==
    /\ \A i \in 1..Len(adds) :
          CacheRead(cache, adds[i].tool, adds[i].input) # None
    /\ (/\ lastRead # NoRead
        /\ \E i \in 1..Len(adds) :
              CacheKey(adds[i].tool, adds[i].input)
                  = CacheKey(lastRead.tool, lastRead.input))
       => lastRead.value \in CacheOutputs

\* an entry is read after a later add of another key
C34_Witness ==
    /\ Len(adds) = 2
    /\ CacheKey(adds[1].tool, adds[1].input) # CacheKey(adds[2].tool, adds[2].input)
    /\ lastRead # NoRead
    /\ CacheKey(lastRead.tool, lastRead.input) = CacheKey(adds[1].tool, adds[1].input)
    /\ lastRead.value = adds[1].output

\* C39: while a caller is on the forced-wait path it holds the lock, before and
\* after every step; no other caller takes the lock or returns, and the timer
\* neither takes the lock nor resets the counter.
C39_LockHeldThroughForcedWait ==
    [][\A t \in Threads :
          InForcedWait(t) =>
             /\ lock = t
             /\ (InForcedWait(t)' => lock' = t)
             /\ \A u \in Threads \ {t} : ~AcquireLock(u) /\ ~ReturnTrue(u)
             /\ ~TimerAcquire
             /\ ~TimerReset]_vars

\* a caller has slept its 60 seconds while another caller and the timer both
\* wait for the lock it holds
C39_Witness ==
    \E t \in Threads :
       /\ pc[t] = "lock90"
       /\ lock = t
       /\ tpc = "lock103"
       /\ \E u \in Threads \ {t} : pc[u] = "lock47"

\* C31: with cap N, a counter starting at 0, no timer reset and a wait that returns
\* at once, the call that returns as number k took the forced-wait path exactly
\* when k = j*N + 1 for some j >= 1, and after k calls the forced-wait path was
\* taken floor((k - 1) / N) times (never while k <= N).
C31_ForcedWaitEveryNthCall ==
    /\ [](waits = IF granted = 0 THEN 0 ELSE (granted - 1) \div max_rpm)
    /\ [](granted <= max_rpm => waits = 0)
    /\ [][\A t \in Threads :
             ReturnTrue(t) =>
                (pc[t] = "ret57" <=>
                    \E j \in 1..MaxCalls : granted' = j * max_rpm + 1)]_vars

\* five calls were made under cap 2: the third and the fifth waited
C31_Witness ==
    /\ max_rpm = 2
    /\ granted = 5
    /\ waits = 2
    /\ \E t \in Threads : lastPath[t] = "wait"
    /\ Quiescent

\* the adds stored so far under the key string key, as positions of adds
StoresOf(key) == {i \in 1..Len(adds) : CacheKey(adds[i].tool, adds[i].input) = key}

\* the output of the most recent of them
LastStored(key) ==
    adds[CHOOSE i \in StoresOf(key) : \A j \in StoresOf(key) : j <= i].output

\* C33: with agents adding and reading concurrently, every key maps to the output of
\* the most recent add stored for it, whichever agent stored it; a read by any agent
\* returns that output; and a store leaves the entries of all other keys as they were.
C33_SharedCacheLastWriteWins ==
    /\ [](/\ DOMAIN cache = {CacheKey(adds[i].tool, adds[i].input) : i \in 1..Len(adds)}
          /\ \A key \in DOMAIN cache : cache[key] = LastStored(key))
    /\ [](seen # NoSeen =>
            LET key == CacheKey(seen.tool, seen.input) IN
              seen.value = IF StoresOf(key) = {} THEN None ELSE LastStored(key))
    /\ [][\A a \in CacheAgents :
             SharedAddStore(a) =>
                \A key \in DOMAIN cache :
                   key # CacheKey(pending[a].tool, pending[a].input)
                      => key \in DOMAIN cache' /\ cache'[key] = cache[key]]_vars

\* two agents stored different outputs under one key; the agent whose output was
\* overwritten then reads the other agent's output
C33_Witness ==
    /\ Len(adds) = 2
    /\ adds[1].agent # adds[2].agent
    /\ CacheKey(adds[1].tool, adds[1].input) = CacheKey(adds[2].tool, adds[2].input)
    /\ adds[1].output # adds[2].output
    /\ seen.agent = adds[1].agent
    /\ CacheKey(seen.tool, seen.input) = CacheKey(adds[1].tool, adds[1].input)
    /\ seen.value = adds[2].output

\* the tools named by a list of actions, in the order of the list
ToolsOf(acts) == [i \in 1..Len(acts) |-> acts[i].tool]

\* s is an initial part of t
IsPrefix(s, t) == Len(s) <= Len(t) /\ SubSeq(t, 1, Len(s)) = s

\* C35: a batch that reaches the dispatch loop has its tools invoked in the order
\* the planner returned the actions (up to the first that raises); when none
\* raises, one step per action is appended in that order, each with the observation
\* of its own action, after the steps of all earlier iterations.
C35_BatchProcessedInPlannerOrder ==
    [][(planCalls' = planCalls + 1 /\ lastOut'.kind = "batch" /\ ~ShouldForceAnswer) =>
          LET acts == lastOut'.acts IN
            /\ IsPrefix(invoked', ToolsOf(acts))
            /\ epc' # "raised" =>
                  /\ invoked' = ToolsOf(acts)
                  /\ Len(steps') = Len(steps) + Len(acts)
                  /\ IsPrefix(steps, steps')
                  /\ \A i \in 1..Len(acts) :
                        steps'[Len(steps) + i] =
                            [action |-> acts[i],
                             observation |-> Observe(acts[i], toolMap')]]_vars

\* a batch of two follows an earlier iteration's step
C35_Witness ==
    /\ lastOut.kind = "batch"
    /\ lastOut.acts = <<Act("direct"), Act("search")>>
    /\ invoked = <<"direct", "search">>
    /\ Len(steps) = 3
    /\ steps[1].action = Act("search")
    /\ steps[2] = [action |-> Act("direct"), observation |-> Obs("direct output")]
    /\ steps[3] = [action |-> Act("search"), observation |-> Obs("search output")]

\* the counter is below max_iterations and, when a budget is set, the elapsed time
\* measured at the end of the previous iteration is below it
WithinBounds ==
    /\ iterations < max_iterations
    /\ max_execution_time # NoBudget => time_elapsed < max_execution_time

\* C36: the loop test lets a new iteration start only within both bounds, so every
\* acquire and every planning call happens within them; when a bound is reached the
\* loop test ends the execution with the stopped response, the history as it is,
\* and nothing is planned or run afterwards.
C36_IterationOnlyWithinBounds ==
    /\ [][(epc = "loop" /\ epc' # "loop") =>
             IF WithinBounds
               THEN epc' = "rpm"
               ELSE /\ epc' = "done"
                    /\ result'.kind = "stopped"
                    /\ steps' = steps
                    /\ planCalls' = planCalls
                    /\ invoked' = invoked]_vars
    /\ [][((epc = "rpm" /\ epc' = "plan") \/ PlanningStep) => WithinBounds]_vars
    /\ [][epc = "done" =>
             /\ epc' = "done"
             /\ planCalls' = planCalls
             /\ steps' = steps
             /\ result' = result]_vars

\* the execution was stopped by the time budget with iterations to spare
C36_Witness ==
    /\ max_execution_time = BudgetSeconds
    /\ time_elapsed >= BudgetSeconds
    /\ max_iterations = 3
    /\ iterations = 1
    /\ planCalls = 1
    /\ steps # << >>
    /\ result.kind = "stopped"

\* the planner output names the tool whose run raises
NamesBrokenTool(out) == \E i \in 1..Len(out.acts) : out.acts[i].tool = BrokenTool

\* C37: when a tool raises during its run (outside the forced-answer iteration,
\* where no tool is run), the execution ends with that exception: no step is
\* appended, of the failing action or of the actions run before it in the same
\* batch, and the iteration counter keeps its value.
C37_ToolFailureIsFatal ==
    [][(PlanningStep /\ NamesBrokenTool(lastOut') /\ ~ShouldForceAnswer) =>
          /\ epc' = "raised"
          /\ result' = [kind |-> "error", text |-> "ToolError"]
          /\ invoked'[Len(invoked')] = BrokenTool
          /\ steps' = steps
          /\ iterations' = iterations]_vars

\* after one completed iteration a batch ran the working tool, then the failing one
C37_Witness ==
    /\ lastOut.acts = <<Act("search"), Act(BrokenTool)>>
    /\ invoked = <<"search", BrokenTool>>
    /\ epc = "raised"
    /\ result.text = "ToolError"
    /\ iterations = 1
    /\ Len(steps) = 1

\* C38: the counter an invocation of _call tests is the number of iterations that
\* invocation itself completed, also when _call was re-entered while one of its
\* tools ran, and no invocation makes more than max_iterations planning calls.
C38_CounterOwnedByItsExecution ==
    \A i \in 1..Len(frames) :
       /\ frames[i].plans <= max_iterations
       /\ (i = Len(frames) /\ frames[i].at = "loop") => iterations = frames[i].own

\* C1: every call of check_or_wait eventually returns True, the calls that find
\* the counter at the cap included.
C1_AcquireEventuallyReturns ==
    \A t \in Threads : (pc[t] # "idle") ~> (pc[t] = "idle")

\* C4: in every reachable state 0 <= _current_rpm <= max_rpm.
C4_CountWithinCap == 0 <= current_rpm /\ current_rpm <= max_rpm

C4_Witness ==
    /\ max_rpm >= 2
    /\ current_rpm = max_rpm
    /\ \E t \in Threads : pc[t] = "log52"

\* C5: check-and-increment is atomic: at most one caller is between the lock and
\* its return, and whenever no call is in flight the counter equals the number of
\* calls granted since the last reset (no lost update).
C5_AtomicCheckAndIncrement ==
    /\ Cardinality({t \in Threads : InCriticalSection(t)}) <= 1
    /\ Quiescent => current_rpm = granted

C5_Witness ==
    /\ Quiescent
    /\ granted = 2
    /\ current_rpm = 2
    /\ \A t \in Threads : lastPath[t] = "grant"

\* C6: counted from a reset, a call passes the capacity test only while fewer than
\* max_rpm calls have returned, and a call takes the forced-wait path (the log
\* notice, then the sleep) only as call number max_rpm + 1.
C6_FirstNImmediateThenWait ==
    [][\A t \in Threads :
          pc[t] = "check48" =>
             /\ (pc'[t] = "load49" => granted < max_rpm)
             /\ (pc'[t] = "log52" => granted = max_rpm)]_vars

C6_Witness ==
    /\ max_rpm >= 2
    /\ granted = max_rpm
    /\ \E t \in Threads : pc[t] = "sleep89" /\ sleepLeft[t] = WaitSeconds

\* C7 (as stated): over any 60-second interval at most max_rpm calls return.
C7_AtMostCapPerSixtySeconds == max_rpm # 0 => Len(recent) <= max_rpm

\* C7 (amended): between two consecutive resets of the counter at most max_rpm
\* calls return.
C7_AtMostCapPerWindow == max_rpm # 0 => granted <= max_rpm

C7_Witness ==
    /\ max_rpm # 0
    /\ granted = max_rpm
    /\ Len(recent) = 2 * max_rpm

\* C8: a call that took the forced wait returns, and when it does the counter is 1.
C8_ForcedWaitReturnsAtOne ==
    \A t \in Threads :
        (pc[t] = "log52") ~> (pc[t] = "idle" /\ lastPath[t] = "wait" /\ current_rpm = 1)

====
